---- MODULE Spec2Model ----
(***************************************************************************)
(* A model of the Transformer encoder modules of                           *)
(* src/src/language_modeling/models/transformer_modules.py:                *)
(* PositionalEncoding, MultiHeadAttention, EncoderBlock, Encoder and       *)
(* Embedding.                                                              *)
(*                                                                         *)
(* Tensors are records [kind, shape, data]: kind is "tensor", "None" (the  *)
(* Python None of an optional argument) or "error" (the operation raised); *)
(* data maps every 0-based index tuple of the shape to a value.            *)
(* Floating-point values are records [m, e] standing for m * 10^e, so that *)
(* the constants -9e15 and -1e4 of _apply_mask are kept as written.        *)
(***************************************************************************)
EXTENDS Integers, Sequences, FiniteSets, TLC

\* ------------------------------------------------------------------ bounds

\* Largest batch dimension of a tensor handed to a forward call.
MaxBatch == 2

\* Largest sequence length (configured, or of an input).
MaxSeq == 2

\* Largest number of attention heads.
MaxHeads == 2

\* Largest model width d_model.
MaxDModel == 10

\* Largest number of encoder layers.
MaxLayers == 2

\* Size of the vocabulary of the embedding table.
MaxVocab == 3

\* Largest magnitude an embedding weight may reach.
MaxWeight == 2

\* Largest number of optimizer steps of one run.
MaxSteps == 2

\* The stored values of the storage model are the numbers below Modulus.
Modulus == 5

\* ------------------------------------------------------- values and dtypes

\* The dtypes the attention logits may have.
DTypes == {"float16", "float32", "float64"}

\* The width in bits of a floating-point type: its precision.
Bits(dtype) == CASE dtype = "float16" -> 16
                 [] dtype = "float32" -> 32
                 [] dtype = "float64" -> 64

\* The value m * 10^e.
F(m, e) == [m |-> m, e |-> e]

\* |a| <= |b| for two values with mantissas of one digit.
MagLeq(a, b) ==
    LET abs(x) == IF x < 0 THEN 0 - x ELSE x
    IN  \/ a.m = 0
        \/ /\ b.m # 0
           /\ \/ a.e < b.e
              \/ a.e = b.e /\ abs(a.m) <= abs(b.m)

\* ------------------------------------------------------- tensor primitives

NoneT == [kind |-> "None", shape |-> <<>>, data |-> <<>>]

ErrorT == [kind |-> "error", shape |-> <<>>, data |-> <<>>]

RECURSIVE Indices(_)
\* Every 0-based index tuple of a shape.
Indices(shape) ==
    IF shape = <<>> THEN {<<>>}
    ELSE {<<i>> \o r : i \in 0..(Head(shape) - 1), r \in Indices(Tail(shape))}

Tensor(shape, f(_)) ==
    [kind |-> "tensor", shape |-> shape, data |-> [idx \in Indices(shape) |-> f(idx)]]

\* A shape padded with leading 1s to n dimensions (broadcasting aligns right).
PadLeft(s, n) ==
    [i \in 1..n |-> IF i <= n - Len(s) THEN 1 ELSE s[i - (n - Len(s))]]

MaxOf(a, b) == IF a >= b THEN a ELSE b

\* Whether torch can broadcast the two shapes together.
Broadcastable(s1, s2) ==
    LET n == MaxOf(Len(s1), Len(s2))
        a == PadLeft(s1, n)
        b == PadLeft(s2, n)
    IN  \A i \in 1..n : a[i] = b[i] \/ a[i] = 1 \/ b[i] = 1

\* The shape two broadcastable shapes expand to.
BroadcastShapes(s1, s2) ==
    LET n == MaxOf(Len(s1), Len(s2))
        a == PadLeft(s1, n)
        b == PadLeft(s2, n)
    IN  [i \in 1..n |-> IF a[i] = 1 THEN b[i] ELSE a[i]]

\* The element of a tensor of shape `shape` that index idx of the expanded
\* tensor reads: leading dimensions dropped, dimensions of size 1 read at 0.
BroadcastIndex(idx, shape) ==
    LET d == Len(idx) - Len(shape)
    IN  [i \in 1..Len(shape) |-> IF shape[i] = 1 THEN 0 ELSE idx[i + d]]

\* tensor == 0, elementwise.
EqZero(t) ==
    IF t.kind # "tensor" THEN ErrorT
    ELSE [kind |-> "tensor", shape |-> t.shape,
          data |-> [idx \in DOMAIN t.data |-> t.data[idx] = 0]]

\* einops.rearrange(t, 'batch seq_len -> batch 1 1 seq_len').
RearrangePadding(t) ==
    IF t.kind # "tensor" \/ Len(t.shape) # 2 THEN ErrorT
    ELSE Tensor(<<t.shape[1], 1, 1, t.shape[2]>>,
                LAMBDA idx : t.data[<<idx[1], idx[4]>>])

\* Tensor.masked_fill(mask, value): out of place, self and mask expanded to
\* their common shape; raises when they do not broadcast.
MaskedFill(t, mask, value) ==
    IF t.kind # "tensor" \/ mask.kind # "tensor" THEN ErrorT
    ELSE IF ~Broadcastable(t.shape, mask.shape) THEN ErrorT
    ELSE Tensor(BroadcastShapes(t.shape, mask.shape),
                LAMBDA idx : IF mask.data[BroadcastIndex(idx, mask.shape)]
                             THEN value
                             ELSE t.data[BroadcastIndex(idx, t.shape)])

\* --------------------------------------- MultiHeadAttention._apply_mask

\* large_neg_value: -9e15 for float32 logits, -1e4 for every other dtype.
LargeNegValue(dtype) == IF dtype = "float32" THEN F(0 - 9, 15) ELSE F(0 - 1, 4)

\* A plausible slip: the mask kept where it is 1 and filled elsewhere.
PaddingFillInverted(logits, padding_mask, dtype) ==
    IF padding_mask.kind = "None" THEN logits
    ELSE MaskedFill(logits,
                    [EqZero(RearrangePadding(padding_mask)) EXCEPT
                       !.data = [idx \in DOMAIN @ |-> ~@[idx]]],
                    LargeNegValue(dtype))

\* if padding_mask is not None: rearrange, masked_fill(padding_mask == 0).
PaddingFill(logits, padding_mask, dtype) ==
    IF padding_mask.kind = "None" THEN logits
    ELSE MaskedFill(logits, EqZero(RearrangePadding(padding_mask)),
                    LargeNegValue(dtype))

\* if causal_mask is not None: masked_fill(causal_mask == 0).
CausalFill(logits, causal_mask, dtype) ==
    IF causal_mask.kind = "None" THEN logits
    ELSE MaskedFill(logits, EqZero(causal_mask), LargeNegValue(dtype))

\* The whole of _apply_mask.
ApplyMask(logits, padding_mask, causal_mask, dtype) ==
    CausalFill(PaddingFill(logits, padding_mask, dtype), causal_mask, dtype)

\* ------------------------------------------------- shapes of operations

\* The outcome of an operation on shapes: a shape, or the operation raised.
OkS(shape) == [ok |-> TRUE, shape |-> shape]

ErrS == [ok |-> FALSE, shape |-> <<>>]

ShapeOf(t) == IF t.kind = "tensor" THEN OkS(t.shape) ELSE ErrS

\* nn.Linear(in_features, out_features) applied to a tensor of shape s.
LinearShape(s, in_features, out_features) ==
    IF ~s.ok \/ Len(s.shape) = 0 THEN ErrS
    ELSE IF s.shape[Len(s.shape)] # in_features THEN ErrS
    ELSE OkS([s.shape EXCEPT ![Len(s.shape)] = out_features])

\* nn.LayerNorm(d_model) applied to a tensor of shape s.
LayerNormShape(s, d_model) ==
    IF ~s.ok \/ Len(s.shape) = 0 THEN ErrS
    ELSE IF s.shape[Len(s.shape)] # d_model THEN ErrS
    ELSE s

\* a + b with broadcasting.
AddShape(a, b) ==
    IF ~a.ok \/ ~b.ok THEN ErrS
    ELSE IF ~Broadcastable(a.shape, b.shape) THEN ErrS
    ELSE OkS(BroadcastShapes(a.shape, b.shape))

\* 'batch seq_len (num_heads head_dim) -> batch num_heads seq_len head_dim'
SplitHeads(s, num_heads, head_dim) ==
    IF ~s.ok \/ Len(s.shape) # 3 THEN ErrS
    ELSE IF s.shape[3] # num_heads * head_dim THEN ErrS
    ELSE OkS(<<s.shape[1], num_heads, s.shape[2], head_dim>>)

\* 'batch num_heads seq_len head_dim -> batch num_heads head_dim seq_len'
TransposeKeys(s) ==
    IF ~s.ok \/ Len(s.shape) # 4 THEN ErrS
    ELSE OkS(<<s.shape[1], s.shape[2], s.shape[4], s.shape[3]>>)

\* 'batch num_heads seq_len head_dim -> batch seq_len (num_heads head_dim)'
MergeHeads(s) ==
    IF ~s.ok \/ Len(s.shape) # 4 THEN ErrS
    ELSE OkS(<<s.shape[1], s.shape[3], s.shape[2] * s.shape[4]>>)

\* torch.matmul of two 4-dimensional tensors: the leading two dimensions
\* broadcast, the inner dimensions must agree.
MatmulShape(a, b) ==
    IF ~a.ok \/ ~b.ok \/ Len(a.shape) # 4 \/ Len(b.shape) # 4 THEN ErrS
    ELSE IF a.shape[4] # b.shape[3] THEN ErrS
    ELSE IF ~Broadcastable(SubSeq(a.shape, 1, 2), SubSeq(b.shape, 1, 2)) THEN ErrS
    ELSE OkS(BroadcastShapes(SubSeq(a.shape, 1, 2), SubSeq(b.shape, 1, 2))
             \o <<a.shape[3], b.shape[4]>>)

\* Raw attention logits of a shape: small values that differ from cell to
\* cell; seed stands for the weights and the input they are computed from.
LogitsOf(shape, seed) ==
    Tensor(shape,
           LAMBDA idx :
              F(((seed + idx[1] + idx[2] + 2 * idx[3] + idx[4]) % 5) - 2, 0))

\* F.softmax(logits, dim=-1), up to whether a weight is zero: a logit at a
\* large negative constant underflows to weight 0 next to an ordinary logit
\* of its row; a row whose logits are all the constant is uniform.
Softmax(t) ==
    IF t.kind # "tensor" THEN ErrorT
    ELSE LET n == Len(t.shape)
             RowHasOrdinary(idx) ==
                 \E k \in 0..(t.shape[n] - 1) :
                     t.data[[idx EXCEPT ![n] = k]].e = 0
         IN  Tensor(t.shape,
                    LAMBDA idx : IF t.data[idx].e = 0 \/ ~RowHasOrdinary(idx)
                                 THEN "positive" ELSE "zero")

\* ---------------------------------------------------- PositionalEncoding

\* PositionalEncoding.__init__ and _reset_parameters: the buffer pe of shape
\* [1, seq_length, d_model]; column dim holds sin, for even dim, or cos, for
\* odd dim, of pos / 10000^((2 / d_model) * dim), kept as the term.
PositionalEncodingNew(seq_length, d_model) ==
    [seq_length |-> seq_length, d_model |-> d_model,
     pe |-> Tensor(<<1, seq_length, d_model>>,
                   LAMBDA idx : [fn |-> IF idx[3] % 2 = 0 THEN "sin" ELSE "cos",
                                 pos |-> idx[2], dim |-> idx[3]])]

\* PositionalEncoding.forward: self.pe[:, :x.size(1)], a slice, which stops
\* at the end of the buffer.
PositionalEncodingForward(self, x) ==
    LET n == IF x.shape[2] <= self.pe.shape[2] THEN x.shape[2]
             ELSE self.pe.shape[2]
    IN  Tensor(<<1, n, self.pe.shape[3]>>, LAMBDA idx : self.pe.data[idx])

\* ---------------------------------------------------- MultiHeadAttention

\* A plausible slip: the divisibility assert left out.
MultiHeadAttentionNewUnchecked(num_heads, d_model) ==
    [state |-> "built", num_heads |-> num_heads,
     d_head |-> d_model \div num_heads, d_model |-> d_model]

\* MultiHeadAttention.__init__: assert d_model % num_heads == 0, then
\* d_head = int(d_model / num_heads) and four Linear(d_model, d_model).
MultiHeadAttentionNew(num_heads, d_model) ==
    IF d_model % num_heads # 0
    THEN [state |-> "AssertionError", num_heads |-> 0, d_head |-> 0,
          d_model |-> 0]
    ELSE [state |-> "built", num_heads |-> num_heads,
          d_head |-> d_model \div num_heads, d_model |-> d_model]

\* MultiHeadAttention.forward. query and value are shapes (value may be
\* None: NoShape); the result holds the output's shape, the attention
\* weights, the logits after masking, and the two masks as received.
NoShape == [ok |-> TRUE, shape |-> <<0>>]

MultiHeadAttentionForward(self, query, value, padding_mask, causal_mask, dtype, seed) ==
    LET val    == IF value = NoShape THEN query ELSE value
        q_proj == SplitHeads(LinearShape(query, self.d_model, self.d_model),
                             self.num_heads, self.d_head)
        k_proj == TransposeKeys(
                    SplitHeads(LinearShape(val, self.d_model, self.d_model),
                               self.num_heads, self.d_head))
        v_proj == SplitHeads(LinearShape(val, self.d_model, self.d_model),
                             self.num_heads, self.d_head)
        raw    == MatmulShape(q_proj, k_proj)
        logits == IF raw.ok THEN LogitsOf(raw.shape, seed) ELSE ErrorT
        masked == ApplyMask(logits, padding_mask, causal_mask, dtype)
        weights == Softmax(masked)
        output == LinearShape(MergeHeads(MatmulShape(ShapeOf(weights), v_proj)),
                              self.d_model, self.d_model)
    IN  [output |-> output,
         weights |-> IF output.ok THEN weights ELSE ErrorT,
         attention_logits |-> IF output.ok THEN masked ELSE ErrorT,
         padding_mask |-> padding_mask, causal_mask |-> causal_mask]

\* ----------------------------------------------------------- EncoderBlock

\* EncoderBlock.__init__: one MultiHeadAttention(num_heads, d_model), whose
\* assert may raise, two LayerNorm(d_model) and the feed-forward
\* Linear(d_model, d_ff), Dropout, ReLU, Linear(d_ff, d_model). id is the
\* block's place in the Encoder's ModuleList.
EncoderBlockNew(id, d_model, num_heads, d_ff) ==
    [state |-> MultiHeadAttentionNew(num_heads, d_model).state,
     id |-> id,
     multi_head_attention |-> MultiHeadAttentionNew(num_heads, d_model),
     d_model |-> d_model, d_ff |-> d_ff]

\* EncoderBlock.forward(x, causal_mask, mask). x is a hidden state
\* [kind, shape, data], data being the sequence of the blocks that produced
\* it from the caller's input. Dropout and ReLU keep shapes.
EncoderBlockForward(self, x, causal_mask, mask, dtype, seed) ==
    LET attended == MultiHeadAttentionForward(
                        self.multi_head_attention, ShapeOf(x), NoShape,
                        mask, causal_mask, dtype, seed)
        x1 == LayerNormShape(AddShape(ShapeOf(x), attended.output), self.d_model)
        pff_x == LinearShape(LinearShape(x1, self.d_model, self.d_ff),
                             self.d_ff, self.d_model)
        x2 == LayerNormShape(AddShape(x1, pff_x), self.d_model)
    IN  [x |-> IF x2.ok
               THEN [kind |-> "tensor", shape |-> x2.shape,
                     data |-> Append(x.data, self.id)]
               ELSE ErrorT,
         attended |-> attended]

\* ---------------------------------------------------------------- Encoder

Ones(shape) == Tensor(shape, LAMBDA idx : 1)

\* torch.triu(t, diagonal): the cells with column - row >= diagonal kept, the
\* others 0.
Triu(t, diagonal) ==
    Tensor(t.shape, LAMBDA idx : IF idx[2] - idx[1] >= diagonal
                                 THEN t.data[idx] ELSE 0)

\* 1 - t
OneMinus(t) == Tensor(t.shape, LAMBDA idx : 1 - t.data[idx])

\* An attribute that was never set: reading it raises AttributeError.
MissingT == [kind |-> "missing", shape |-> <<>>, data |-> <<>>]

\* A plausible slip: diagonal=0, which masks the diagonal too.
CausalMaskTensorStrict(seq_len) ==
    OneMinus(Triu(Ones(<<seq_len, seq_len>>), 0))

\* 1 - torch.triu(torch.ones(seq_len, seq_len), diagonal=1)
CausalMaskTensor(seq_len) ==
    OneMinus(Triu(Ones(<<seq_len, seq_len>>), 1))

\* Encoder.__init__: num_layers blocks of d_ff = 2 * d_model; the buffer
\* causal_mask_tensor is registered only if causal_mask.
EncoderNew(num_layers, num_heads, d_model, seq_len, causal_mask) ==
    LET encoders == [i \in 1..num_layers |->
                        EncoderBlockNew(i, d_model, num_heads, 2 * d_model)]
    IN  [state |-> IF \E i \in 1..num_layers : encoders[i].state # "built"
                   THEN "AssertionError" ELSE "built",
         encoders |-> encoders,
         causal_mask |-> causal_mask,
         seq_len |-> seq_len,
         causal_mask_tensor |-> IF causal_mask THEN CausalMaskTensor(seq_len)
                                ELSE MissingT]

\* -------------------------------------------------------------- Embedding

\* The initial value of a row of the table (nn.Embedding draws it at
\* random): some value that is not 0.
InitialWeight(row) == IF row % 2 = 0 THEN 1 ELSE 0 - 1

\* A plausible slip: padding_idx left out, whatever enable_padding says.
EmbeddingNewNoPadding(d_model, vocab_size, seq_length, enable_padding) ==
    [state |-> "built", d_model |-> d_model, vocab_size |-> vocab_size,
     padding_idx |-> 0 - 1,
     weight |-> [row \in 0..(vocab_size - 1) |-> InitialWeight(row)],
     grad |-> [row \in 0..(vocab_size - 1) |-> 0],
     positional_embeddings |-> PositionalEncodingNew(seq_length, d_model)]

\* Embedding.__init__: nn.Embedding(vocab_size, d_model, padding_idx=0) if
\* enable_padding, else without padding_idx (-1 here); nn.Embedding zeroes
\* the row at padding_idx. weight[row] is one coordinate of the row: lookup,
\* gradient and update treat every coordinate alike.
EmbeddingNew(d_model, vocab_size, seq_length, enable_padding) ==
    [state |-> "built", d_model |-> d_model, vocab_size |-> vocab_size,
     padding_idx |-> IF enable_padding THEN 0 ELSE 0 - 1,
     weight |-> [row \in 0..(vocab_size - 1) |->
                    IF enable_padding /\ row = 0 THEN 0
                    ELSE InitialWeight(row)],
     grad |-> [row \in 0..(vocab_size - 1) |-> 0],
     positional_embeddings |-> PositionalEncodingNew(seq_length, d_model)]

\* Embedding.forward: self.embeddings(x) + self.positional_embeddings(x),
\* the sum broadcasting. A cell of the output names the table row and the
\* cell of pe it is the sum of.
EmbeddingForward(self, x) ==
    LET tok == OkS(x.shape \o <<self.d_model>>)
        pos == PositionalEncodingForward(self.positional_embeddings, x)
        out == AddShape(tok, ShapeOf(pos))
    IN  IF ~out.ok THEN ErrorT
        ELSE Tensor(out.shape,
                    LAMBDA idx :
                       [tok |-> x.data[BroadcastIndex(<<idx[1], idx[2]>>, x.shape)],
                        pos |-> pos.data[BroadcastIndex(idx, pos.shape)]])

\* The gradient nn.Embedding's backward adds to .grad: per row, the sum of
\* the upstream gradient over the positions that hold the row's id, and 0
\* for the row at padding_idx.
EmbeddingBackward(self, x, upstream) ==
    [row \in 0..(self.vocab_size - 1) |->
        IF row = self.padding_idx THEN self.grad[row]
        ELSE self.grad[row]
             + upstream * Cardinality({idx \in Indices(x.shape) : x.data[idx] = row})]

\* ------------------------------------------- storage of the forward pass
(***************************************************************************)
(* Which storage each operation of a forward pass reads, allocates or      *)
(* writes in place. A location is a parameter or buffer of the model, a    *)
(* tensor of the caller of a pass, or a temporary of a pass and block. A   *)
(* tensor's value is one number; a pass is one call of Embedding.forward   *)
(* or of Encoder.forward, and passes share the model.                      *)
(***************************************************************************)

Passes == {1, 2}

Param(n, b) == [o |-> "param", n |-> n, p |-> 0, b |-> b]

Caller(n, p) == [o |-> "caller", n |-> n, p |-> p, b |-> 0]

Temp(n, p, b) == [o |-> "temp", n |-> n, p |-> p, b |-> b]

NullLoc == [o |-> "null", n |-> "", p |-> 0, b |-> 0]

BlockParams == {"w_q", "w_k", "w_v", "w_out", "norm1", "norm2", "pff0", "pff3"}

BlockTemps == {"attended", "drop1", "x1", "x2", "h", "hdrop", "o", "drop2",
               "x3", "x4"}

\* The weights and biases, the positional table and the causal-mask buffer.
ParamLocs ==
    {Param("table", 0), Param("pe", 0), Param("causal_mask_tensor", 0)}
    \cup {Param(n, b) : n \in BlockParams, b \in 1..MaxLayers}

\* The input and the padding mask each caller passes.
CallerLocs == {Caller(n, p) : n \in {"x", "mask"}, p \in Passes}

SharedLocs == ParamLocs \cup CallerLocs

TempLocs ==
    {Temp(n, p, b) : n \in BlockTemps, p \in Passes, b \in 1..MaxLayers}
    \cup {Temp(n, p, 0) : n \in {"tok", "out"}, p \in Passes}

Locs == SharedLocs \cup TempLocs

\* The value of a new tensor computed from two.
Mix(a, b) == (2 * a + 3 * b + 1) % Modulus

\* ReLU: the upper half of the values stands for the negative numbers.
Relu(v) == IF 2 * v > Modulus THEN 0 ELSE v

\* nn.Dropout at site of a pass: in evaluation mode the input tensor itself
\* is returned; in training mode a new tensor, zeroed or scaled (p = 0.5) as
\* the pass's random draw for the site says.
DropoutKeeps(f, site) == (f.seed + site) % 2 = 0

Dropout(f, h, training, src, dst, site) ==
    IF ~training THEN [loc |-> src, h |-> h, stored |-> {}]
    ELSE [loc |-> dst,
          h |-> [h EXCEPT ![dst] = IF DropoutKeeps(f, site)
                                   THEN (2 * h[src]) % Modulus ELSE 0],
          stored |-> {dst}]

\* A plausible slip: x += ..., which writes into the tensor x names.
ResidualInPlace(x, fresh) == x

\* x = x + ...: the sum is a new tensor.
ResidualDest(x, fresh) == fresh

\* The first frame of a pass.
FirstFrame(p, kind, seed) ==
    [p |-> p, kind |-> kind, seed |-> seed,
     pc |-> IF kind = "Embedding" THEN "lookup" ELSE "attention",
     blk |-> 1, x |-> Caller("x", p), t |-> NullLoc, u |-> NullLoc,
     error |-> "none"]

\* One operation of the pass with frame f on the heap h of a model m
\* (m.causal_mask: the buffer is registered; m.training: the mode). Returns
\* the frame and heap after it, the locations it stored to, and those among
\* them it wrote in place.
Step(f, h, m) ==
    LET done(f2, h2, st, ip) == [f |-> f2, h |-> h2, stored |-> st, inplace |-> ip]
        new(dst, v, f2) == done(f2, [h EXCEPT ![dst] = v], {dst}, {})
        b == f.blk
        p == f.p
    IN  CASE f.pc = "lookup" ->
                \* self.embeddings(x)
                new(Temp("tok", p, 0), Mix(h[Param("table", 0)], h[f.x]),
                    [f EXCEPT !.pc = "positional", !.t = Temp("tok", p, 0)])
          [] f.pc = "positional" ->
                \* self.positional_embeddings(x): self.pe[:, :x.size(1)], a
                \* view of the buffer
                done([f EXCEPT !.pc = "sum", !.u = Param("pe", 0)], h, {}, {})
          [] f.pc = "sum" ->
                \* the lookup + the view: a new tensor
                new(Temp("out", p, 0), (h[f.t] + h[f.u]) % Modulus,
                    [f EXCEPT !.pc = "ret", !.x = Temp("out", p, 0)])
          [] f.pc = "attention" ->
                \* self.causal_mask_tensor is read, then the block's
                \* multi_head_attention runs: masked_fill is out of place
                IF ~m.causal_mask
                THEN done([f EXCEPT !.pc = "raised", !.error = "AttributeError"],
                          h, {}, {})
                ELSE new(Temp("attended", p, b),
                         Mix(Mix(Mix(h[f.x], h[Param("w_q", b)]),
                                 Mix(h[Param("w_k", b)], h[Param("w_v", b)])),
                             Mix(Mix(h[Param("causal_mask_tensor", 0)],
                                     h[Caller("mask", p)]),
                                 h[Param("w_out", b)])),
                         [f EXCEPT !.pc = "dropout1", !.t = Temp("attended", p, b)])
          [] f.pc = "dropout1" ->
                LET d == Dropout(f, h, m.training, f.t, Temp("drop1", p, b), 1)
                IN  done([f EXCEPT !.pc = "add1", !.t = d.loc], d.h, d.stored, {})
          [] f.pc = "add1" ->
                LET dst == ResidualDest(f.x, Temp("x1", p, b))
                IN  done([f EXCEPT !.pc = "norm1", !.x = dst],
                         [h EXCEPT ![dst] = (h[f.x] + h[f.t]) % Modulus],
                         {dst}, IF dst = f.x THEN {dst} ELSE {})
          [] f.pc = "norm1" ->
                new(Temp("x2", p, b), Mix(h[f.x], h[Param("norm1", b)]),
                    [f EXCEPT !.pc = "pff0", !.x = Temp("x2", p, b)])
          [] f.pc = "pff0" ->
                new(Temp("h", p, b), Mix(h[f.x], h[Param("pff0", b)]),
                    [f EXCEPT !.pc = "pff1", !.t = Temp("h", p, b)])
          [] f.pc = "pff1" ->
                LET d == Dropout(f, h, m.training, f.t, Temp("hdrop", p, b), 2)
                IN  done([f EXCEPT !.pc = "pff2", !.t = d.loc], d.h, d.stored, {})
          [] f.pc = "pff2" ->
                \* nn.ReLU(inplace=True): written into its input's storage
                done([f EXCEPT !.pc = "pff3"],
                     [h EXCEPT ![f.t] = Relu(h[f.t])], {f.t}, {f.t})
          [] f.pc = "pff3" ->
                new(Temp("o", p, b), Mix(h[f.t], h[Param("pff3", b)]),
                    [f EXCEPT !.pc = "dropout2", !.t = Temp("o", p, b)])
          [] f.pc = "dropout2" ->
                LET d == Dropout(f, h, m.training, f.t, Temp("drop2", p, b), 3)
                IN  done([f EXCEPT !.pc = "add2", !.t = d.loc], d.h, d.stored, {})
          [] f.pc = "add2" ->
                LET dst == ResidualDest(f.x, Temp("x3", p, b))
                IN  done([f EXCEPT !.pc = "norm2", !.x = dst],
                         [h EXCEPT ![dst] = (h[f.x] + h[f.t]) % Modulus],
                         {dst}, IF dst = f.x THEN {dst} ELSE {})
          [] f.pc = "norm2" ->
                new(Temp("x4", p, b), Mix(h[f.x], h[Param("norm2", b)]),
                    [f EXCEPT !.pc = IF b < MaxLayers THEN "attention" ELSE "ret",
                              !.blk = IF b < MaxLayers THEN b + 1 ELSE b,
                              !.x = Temp("x4", p, b)])

RECURSIVE Alone(_, _, _)
\* The pass run to its end with no other pass beside it.
Alone(f, h, m) ==
    IF f.pc \in {"ret", "raised"} THEN [f |-> f, h |-> h]
    ELSE Alone(Step(f, h, m).f, Step(f, h, m).h, m)

\* ------------------------------------------------------------------ inputs

\* Every 0/1 mask of a shape, and None.
MasksOf(shape) ==
    {[kind |-> "tensor", shape |-> shape, data |-> d] :
        d \in [Indices(shape) -> {0, 1}]}

OptMasksOf(shape) == {NoneT} \cup MasksOf(shape)

\* The mask that is c everywhere.
ConstMask(shape, c) == Tensor(shape, LAMBDA idx : c)

\* The [q, k] mask with 1 at and below the diagonal.
TrilMask(q, k) == Tensor(<<q, k>>, LAMBDA idx : IF idx[2] <= idx[1] THEN 1 ELSE 0)

\* The mask pairs of one _apply_mask call: every padding mask with a few
\* causal masks, and every causal mask with a few padding masks.
MaskPairs(b, q, k) ==
    (OptMasksOf(<<b, k>>)
        \X {NoneT, TrilMask(q, k), ConstMask(<<q, k>>, 0)})
    \cup
    ({NoneT, ConstMask(<<b, k>>, 1), ConstMask(<<b, k>>, 0)}
        \X OptMasksOf(<<q, k>>))

VARIABLES
    am,     \* the frame of one call of MultiHeadAttention._apply_mask
    mha,    \* a MultiHeadAttention under construction and use
    mhaOut, \* what the last MultiHeadAttention.forward returned
    enc,    \* an Encoder under construction and use
    call,   \* the frame of one call of Encoder.forward
    emb,    \* an Embedding under construction, use and training
    embOut, \* the frame of the last Embedding.forward
    model,  \* storage model: the mode and the buffers of the shared model
    heap,   \* storage model: the value at every location
    heap0,  \* storage model: the heap before any pass began
    frames, \* storage model: the frame of every pass
    stored  \* storage model: the locations stored to, and those in place

vars == <<am, mha, mhaOut, enc, call, emb, embOut, model, heap, heap0, frames,
          stored>>

\* What the actions on one module leave alone: the state of the others.
notMask == <<mha, mhaOut, enc, call, emb, embOut, model, heap, heap0, frames,
             stored>>

notMHA == <<am, enc, call, emb, embOut, model, heap, heap0, frames, stored>>

notEncoder == <<am, mha, mhaOut, emb, embOut, model, heap, heap0, frames,
                stored>>

notEmbedding == <<am, mha, mhaOut, enc, call, model, heap, heap0, frames,
                  stored>>

notStorage == <<am, mha, mhaOut, enc, call, emb, embOut>>

AmIdle == am = [pc |-> "idle"]

MhaIdle == mha = [state |-> "idle"] /\ mhaOut = [calls |-> 0]

EncIdle == enc = [state |-> "idle"] /\ call = [pc |-> "idle"]

EmbIdle == emb = [state |-> "idle"] /\ embOut = [pc |-> "idle"]

StorageIdle ==
    /\ model = [state |-> "idle"]
    /\ heap = <<>> /\ heap0 = <<>> /\ frames = <<>>
    /\ stored = [all |-> {}, inplace |-> {}]

\* ---------------------------------------------- _apply_mask, step by step

AmInit ==
    \E b \in 1..MaxBatch, q \in 1..MaxSeq, k \in 1..MaxSeq :
    \E masks \in MaskPairs(b, q, k), dt \in DTypes :
        am = [pc |-> "l66", dtype |-> dt,
              input |-> LogitsOf(<<b, MaxHeads, q, k>>, 0),
              attention_logits |-> LogitsOf(<<b, MaxHeads, q, k>>, 0),
              padding_mask |-> masks[1], causal_mask |-> masks[2]]

\* lines 68-70
ApplyMaskPadding ==
    /\ am.pc = "l66"
    /\ am' = [am EXCEPT !.pc = "l72",
                        !.attention_logits =
                            PaddingFill(@, am.padding_mask, am.dtype)]
    /\ UNCHANGED notMask

\* lines 72-73
ApplyMaskCausal ==
    /\ am.pc = "l72"
    /\ am' = [am EXCEPT !.pc = "ret",
                        !.attention_logits =
                            CausalFill(@, am.causal_mask, am.dtype)]
    /\ UNCHANGED notMask

NextMask == ApplyMaskPadding \/ ApplyMaskCausal

InitMask == AmInit /\ MhaIdle /\ EncIdle /\ EmbIdle /\ StorageIdle

SpecMask == InitMask /\ [][NextMask]_vars

\* --------------------------------- MultiHeadAttention, built and called

\* MultiHeadAttention(num_heads, d_model)
MHAConstruct ==
    /\ mha.state = "idle"
    /\ \E num_heads \in 1..MaxDModel, d_model \in 1..MaxDModel :
          mha' = [args |-> [num_heads |-> num_heads, d_model |-> d_model],
                  state |-> MultiHeadAttentionNew(num_heads, d_model).state,
                  self |-> MultiHeadAttentionNew(num_heads, d_model)]
    /\ UNCHANGED mhaOut
    /\ UNCHANGED notMHA

\* forward(query, value, padding_mask, causal_mask) on a built module; the
\* last dimension of the input may differ from d_model.
MHAForward ==
    /\ mha.state = "built"
    /\ mhaOut.calls = 0
    /\ \E b \in 1..MaxBatch, q \in 1..MaxSeq, k \in 1..MaxSeq,
          d \in {mha.self.d_model, mha.self.d_model + 1} :
       \E value \in {NoShape, OkS(<<b, k, d>>)} :
       \E pm \in {NoneT, ConstMask(<<b, IF value = NoShape THEN q ELSE k>>, 1)},
          cm \in {NoneT, TrilMask(q, IF value = NoShape THEN q ELSE k)} :
          mhaOut' =
             [calls |-> 1, query |-> <<b, q, d>>, value |-> value,
              ret |-> MultiHeadAttentionForward(
                         mha.self, OkS(<<b, q, d>>), value, pm, cm,
                         "float32", 0)]
    /\ UNCHANGED mha
    /\ UNCHANGED notMHA

NextMHA == MHAConstruct \/ MHAForward

InitMHA == MhaIdle /\ AmIdle /\ EncIdle /\ EmbIdle /\ StorageIdle

SpecMHA == InitMHA /\ [][NextMHA]_vars

\* ------------------------------------------- Encoder, built and called

\* Encoder(num_layers, num_heads, d_model, dropout, seq_len, causal_mask)
EncoderConstruct ==
    /\ enc.state = "idle"
    /\ \E num_layers \in 0..MaxLayers, num_heads \in 1..MaxHeads,
          d_model \in 1..MaxDModel, seq_len \in 1..MaxSeq,
          causal_mask \in BOOLEAN :
          enc' = [args |-> [num_layers |-> num_layers, num_heads |-> num_heads,
                            d_model |-> d_model, seq_len |-> seq_len,
                            causal_mask |-> causal_mask],
                  state |-> EncoderNew(num_layers, num_heads, d_model,
                                       seq_len, causal_mask).state,
                  self |-> EncoderNew(num_layers, num_heads, d_model,
                                      seq_len, causal_mask)]
    /\ UNCHANGED call
    /\ UNCHANGED notEncoder

\* The padding mask of a call: none, all ones, or the last position padded.
PaddingMasks(b, len) ==
    {NoneT, ConstMask(<<b, len>>, 1),
     Tensor(<<b, len>>, LAMBDA idx : IF idx[2] = len - 1 THEN 0 ELSE 1)}

\* forward(x, mask) is entered: x of shape [batch, len, d_model].
EncoderForwardCall ==
    /\ enc.state = "built"
    /\ call.pc = "idle"
    /\ \E b \in 1..MaxBatch, len \in 1..MaxSeq, seed \in {0, 1},
          dt \in {"float16", "float32"} :
       \E mask \in PaddingMasks(b, len) :
          call' = [pc |-> "loop", i |-> 1,
                   input |-> [kind |-> "tensor",
                              shape |-> <<b, len, enc.args.d_model>>,
                              data |-> <<>>],
                   x |-> [kind |-> "tensor",
                          shape |-> <<b, len, enc.args.d_model>>,
                          data |-> <<>>],
                   mask |-> mask, dtype |-> dt, seed |-> seed,
                   log |-> <<>>, error |-> "none"]
    /\ UNCHANGED enc
    /\ UNCHANGED notEncoder

\* What block call.i returns on the call's x and masks.
BlockResult ==
    EncoderBlockForward(enc.self.encoders[call.i], call.x,
                        enc.self.causal_mask_tensor, call.mask, call.dtype,
                        call.seed + call.i)

\* One turn of `for e in self.encoders: x = e(x, self.causal_mask_tensor, mask)`.
EncoderForwardBlock ==
    /\ call.pc = "loop"
    /\ call.i <= Len(enc.self.encoders)
    /\ enc.self.causal_mask_tensor.kind # "missing"
    /\ BlockResult.x.kind = "tensor"
    /\ call' = [call EXCEPT
                  !.x = BlockResult.x,
                  !.i = @ + 1,
                  !.log = Append(@, [block |-> enc.self.encoders[call.i].id,
                                     x_in |-> call.x,
                                     x_out |-> BlockResult.x,
                                     attended |-> BlockResult.attended])]
    /\ UNCHANGED enc
    /\ UNCHANGED notEncoder

\* The turn reads self.causal_mask_tensor, which was never registered.
EncoderForwardNoBuffer ==
    /\ call.pc = "loop"
    /\ call.i <= Len(enc.self.encoders)
    /\ enc.self.causal_mask_tensor.kind = "missing"
    /\ call' = [call EXCEPT !.pc = "raised", !.error = "AttributeError"]
    /\ UNCHANGED enc
    /\ UNCHANGED notEncoder

\* An operation of the block raises on the shapes it is given.
EncoderForwardBlockRaises ==
    /\ call.pc = "loop"
    /\ call.i <= Len(enc.self.encoders)
    /\ enc.self.causal_mask_tensor.kind # "missing"
    /\ BlockResult.x.kind = "error"
    /\ call' = [call EXCEPT !.pc = "raised", !.error = "RuntimeError"]
    /\ UNCHANGED enc
    /\ UNCHANGED notEncoder

\* `return x`, after the last block.
EncoderForwardReturn ==
    /\ call.pc = "loop"
    /\ call.i > Len(enc.self.encoders)
    /\ call' = [call EXCEPT !.pc = "ret"]
    /\ UNCHANGED enc
    /\ UNCHANGED notEncoder

NextEncoder ==
    \/ EncoderConstruct
    \/ EncoderForwardCall
    \/ EncoderForwardBlock
    \/ EncoderForwardNoBuffer
    \/ EncoderForwardBlockRaises
    \/ EncoderForwardReturn

InitEncoder == EncIdle /\ AmIdle /\ MhaIdle /\ EmbIdle /\ StorageIdle

SpecEncoder == InitEncoder /\ [][NextEncoder]_vars

\* ------------------------------- Embedding, built, called and trained

\* Embedding(d_model, vocab_size, seq_length, enable_padding), of width
\* d_model = MaxHeads and vocab_size = MaxVocab.
EmbeddingConstruct ==
    /\ emb.state = "idle"
    /\ \E seq_length \in 1..MaxSeq, enable_padding \in BOOLEAN :
          emb' = [args |-> [seq_length |-> seq_length,
                            enable_padding |-> enable_padding],
                  state |-> "built", steps |-> 0,
                  self |-> EmbeddingNew(MaxHeads, MaxVocab, seq_length,
                                        enable_padding)]
    /\ UNCHANGED embOut
    /\ UNCHANGED notEmbedding

\* A batch of token ids of shape [b, len]: consecutive ids from first.
TokenIds(b, len, first, vocab_size) ==
    Tensor(<<b, len>>, LAMBDA idx : (first + idx[1] + idx[2]) % vocab_size)

\* forward(x) on a batch of token ids.
EmbeddingForwardCall ==
    /\ emb.state = "built"
    /\ embOut.pc \in {"idle", "stepped"}
    /\ \E b \in 1..MaxBatch, len \in 1..MaxSeq, first \in 0..(MaxVocab - 1) :
          LET x == TokenIds(b, len, first, emb.self.vocab_size)
              out == EmbeddingForward(emb.self, x)
          IN  embOut' = [pc |-> IF out.kind = "tensor" THEN "ret" ELSE "raised",
                         x |-> x, out |-> out]
    /\ UNCHANGED emb
    /\ UNCHANGED notEmbedding

\* loss.backward(): the gradient of the loss reaches the table through the
\* output of the last forward.
EmbeddingBackwardCall ==
    /\ embOut.pc = "ret"
    /\ \E upstream \in {0 - 1, 1} :
          emb' = [emb EXCEPT !.self.grad =
                     EmbeddingBackward(emb.self, embOut.x, upstream)]
    /\ embOut' = [pc |-> "backward", x |-> embOut.x]
    /\ UNCHANGED notEmbedding

\* optimizer.step() and zero_grad(): plain gradient descent with learning
\* rate 1, as long as the weights stay in range.
OptimizerStep ==
    /\ embOut.pc = "backward"
    /\ emb.steps < MaxSteps
    /\ \A row \in DOMAIN emb.self.weight :
          emb.self.weight[row] - emb.self.grad[row] \in (0 - MaxWeight)..MaxWeight
    /\ emb' = [emb EXCEPT
                 !.steps = @ + 1,
                 !.self.weight = [row \in DOMAIN @ |-> @[row] - emb.self.grad[row]],
                 !.self.grad = [row \in DOMAIN @ |-> 0]]
    /\ embOut' = [pc |-> "stepped"]
    /\ UNCHANGED notEmbedding

NextEmbedding ==
    \/ EmbeddingConstruct
    \/ EmbeddingForwardCall
    \/ EmbeddingBackwardCall
    \/ OptimizerStep

InitEmbedding == EmbIdle /\ AmIdle /\ MhaIdle /\ EncIdle /\ StorageIdle

SpecEmbedding == InitEmbedding /\ [][NextEmbedding]_vars

\* ------------------------------------ forward passes sharing one model

\* The heap before the passes: the parameters and buffers of the model and
\* the tensors of the callers hold some values, the temporaries none yet.
FirstHeap ==
    [l \in Locs |->
        IF l.o = "temp" THEN 0
        ELSE IF l.o = "caller" THEN (l.p + IF l.n = "mask" THEN 1 ELSE 0) % Modulus
        ELSE IF l.n \in {"w_q", "pff0", "table"} THEN 1
        ELSE IF l.n \in {"w_k", "norm1", "pe"} THEN 2
        ELSE 3 % Modulus]

InitStorage ==
    /\ \E training \in BOOLEAN, causal_mask \in BOOLEAN :
          model = [state |-> "built", training |-> training,
                   causal_mask |-> causal_mask]
    /\ heap = FirstHeap
    /\ heap0 = FirstHeap
    /\ \E kinds \in [Passes -> {"Embedding", "Encoder"}],
          seeds \in [Passes -> {0, 1}] :
          frames = [p \in Passes |-> FirstFrame(p, kinds[p], seeds[p])]
    /\ stored = [all |-> {}, inplace |-> {}]

\* Some pass does its next operation.
PassStep ==
    \E p \in Passes :
        /\ frames[p].pc \notin {"ret", "raised"}
        /\ LET r == Step(frames[p], heap, model)
           IN  /\ frames' = [frames EXCEPT ![p] = r.f]
               /\ heap' = r.h
               /\ stored' = [all |-> stored.all \cup r.stored,
                             inplace |-> stored.inplace \cup r.inplace]
        /\ UNCHANGED <<model, heap0>>
        /\ UNCHANGED notStorage

NextStorage == PassStep

InitFrames == InitStorage /\ AmIdle /\ MhaIdle /\ EncIdle /\ EmbIdle

SpecStorage == InitFrames /\ [][NextStorage]_vars

\* ------------------------------------------------------------------ C3

\* The cell [b, h, q, k] is one the masks of the call say to suppress.
SuppressedCell(idx) ==
    \/ am.padding_mask.kind = "tensor" /\ am.padding_mask.data[<<idx[1], idx[4]>>] = 0
    \/ am.causal_mask.kind = "tensor" /\ am.causal_mask.data[<<idx[3], idx[4]>>] = 0

\* C3: _apply_mask returns, in every cell [b, h, q, k], the large negative
\* constant when padding_mask is given and padding_mask[b, k] = 0 or
\* causal_mask is given and causal_mask[q, k] = 0, and the input logit in
\* every other cell; the shape is the input's.
C3_ApplyMaskIsUnion ==
    am.pc = "ret" =>
        /\ am.attention_logits.kind = "tensor"
        /\ am.attention_logits.shape = am.input.shape
        /\ \A idx \in Indices(am.input.shape) :
              am.attention_logits.data[idx] =
                 IF SuppressedCell(idx) THEN LargeNegValue(am.dtype)
                 ELSE am.input.data[idx]
        /\ (am.padding_mask.kind = "None" /\ am.causal_mask.kind = "None")
              => am.attention_logits = am.input

\* A returned call in which one cell is suppressed by the padding mask
\* alone, one by the causal mask alone, one by both and one by neither.
C3_Witness ==
    /\ am.pc = "ret"
    /\ am.padding_mask.kind = "tensor" /\ am.causal_mask.kind = "tensor"
    /\ \E i1, i2, i3, i4 \in Indices(am.input.shape) :
          /\ am.padding_mask.data[<<i1[1], i1[4]>>] = 0
          /\ am.causal_mask.data[<<i1[3], i1[4]>>] = 1
          /\ am.padding_mask.data[<<i2[1], i2[4]>>] = 1
          /\ am.causal_mask.data[<<i2[3], i2[4]>>] = 0
          /\ am.padding_mask.data[<<i3[1], i3[4]>>] = 0
          /\ am.causal_mask.data[<<i3[3], i3[4]>>] = 0
          /\ ~SuppressedCell(i4)

\* ------------------------------------------------------------------ C10
\* C10: the constant written into a masked logit never has, for the dtype
\* of the call, a smaller magnitude than the constant of a dtype of lower
\* precision.
C10_ConstantGrowsWithPrecision ==
    am.pc = "ret" =>
        \A idx \in Indices(am.input.shape), lower \in DTypes :
            (SuppressedCell(idx) /\ Bits(lower) < Bits(am.dtype))
               => MagLeq(LargeNegValue(lower), am.attention_logits.data[idx])

\* ------------------------------------------------------------------ C1
\* C1: constructing MultiHeadAttention(num_heads, d_model) raises exactly
\* when d_model % num_heads # 0; a built module has
\* d_head * num_heads = d_model; forward has run only on a built module.
C1_ConstructionChecksDivisibility ==
    mha.state # "idle" =>
        /\ (mha.state = "AssertionError") <=>
              (mha.args.d_model % mha.args.num_heads # 0)
        /\ (mha.state = "built") <=>
              (mha.args.d_model % mha.args.num_heads = 0)
        /\ mha.state = "built" =>
              /\ mha.self.d_head * mha.self.num_heads = mha.args.d_model
              /\ mha.self.num_heads = mha.args.num_heads
        /\ mhaOut.calls > 0 => mha.state = "built"

\* The spec's example, d_model = 10 and num_heads = 3, has been refused.
C1_Witness ==
    /\ mha.state = "AssertionError"
    /\ mha.args = [num_heads |-> 3, d_model |-> 10]

\* ------------------------------------------------ the Encoder's forward

\* Encoder.forward has ended: it returned or it raised.
ForwardEnded == call.pc \in {"ret", "raised"}

\* The call's input has the configured length.
WellShaped == call.input.shape[2] = enc.args.seq_len

\* The cells of a block's logits that hold the large negative constant.
SuppressedIn(entry) ==
    {idx \in Indices(entry.attended.attention_logits.shape) :
        entry.attended.attention_logits.data[idx] = LargeNegValue(call.dtype)}

\* The cells [b, h, q, k] the padding mask of the call suppresses.
PaddedCell(idx) ==
    call.mask.kind = "tensor" /\ call.mask.data[<<idx[1], idx[4]>>] = 0

\* ------------------------------------------------------------------ C2
\* C2: forward of an Encoder built without causal mode completes on a
\* well-shaped input; every block has run, with no causal mask, and only the
\* padding mask suppresses logits.
C2_NonCausalForwardCompletes ==
    (enc.state = "built" /\ ~enc.args.causal_mask /\ ForwardEnded) =>
        /\ call.pc = "ret"
        /\ Len(call.log) = enc.args.num_layers
        /\ \A n \in 1..Len(call.log) :
              /\ call.log[n].attended.causal_mask.kind = "None"
              /\ \A idx \in SuppressedIn(call.log[n]) : PaddedCell(idx)

\* ------------------------------------------------------------------ C4
\* C4: the causal mask of a causal Encoder is [seq_len, seq_len] with 1 at
\* [i, j] exactly when j <= i; on an input of length seq_len with an
\* all-ones padding mask, every block and head suppresses the logit of
\* query i at key j exactly when j > i, and gives it weight 0 exactly then.
C4_CausalMaskIsLowerTriangular ==
    (enc.state = "built" /\ enc.args.causal_mask) =>
        /\ enc.self.causal_mask_tensor.kind = "tensor"
        /\ enc.self.causal_mask_tensor.shape =
              <<enc.args.seq_len, enc.args.seq_len>>
        /\ \A i, j \in 0..(enc.args.seq_len - 1) :
              enc.self.causal_mask_tensor.data[<<i, j>>] =
                 IF j <= i THEN 1 ELSE 0
        /\ (call.pc # "idle" /\ WellShaped
               /\ call.mask = ConstMask(<<call.input.shape[1],
                                          call.input.shape[2]>>, 1)) =>
              \A n \in 1..Len(call.log) :
                 LET a == call.log[n].attended
                 IN  /\ a.attention_logits.shape =
                           <<call.input.shape[1], enc.args.num_heads,
                             enc.args.seq_len, enc.args.seq_len>>
                     /\ \A idx \in Indices(a.attention_logits.shape) :
                           /\ (a.attention_logits.data[idx] =
                                  LargeNegValue(call.dtype))
                                 <=> idx[4] > idx[3]
                           /\ (a.weights.data[idx] = "zero")
                                 <=> idx[4] > idx[3]

\* A causal Encoder of two layers has returned from an input of length
\* seq_len >= 2 with an all-ones padding mask.
C4_Witness ==
    /\ enc.state = "built" /\ enc.args.causal_mask
    /\ enc.args.seq_len >= 2 /\ enc.args.num_layers = 2
    /\ call.pc = "ret" /\ WellShaped
    /\ call.mask.kind = "tensor"
    /\ \A idx \in DOMAIN call.mask.data : call.mask.data[idx] = 1
    /\ Len(call.log) = 2

\* ------------------------------------------------------------------ C6

\* forward returned, having run the blocks in construction order, each once
\* and on the output of the one before, with the masks in their roles.
BlocksThreaded ==
    /\ call.pc = "ret"
    /\ Len(call.log) = enc.args.num_layers
    /\ \A n \in 1..Len(call.log) :
          /\ call.log[n].block = n
          /\ call.log[n].x_in = IF n = 1 THEN call.input
                                ELSE call.log[n - 1].x_out
          /\ call.log[n].x_out.data = Append(call.log[n].x_in.data, n)
          /\ call.log[n].attended.causal_mask = enc.self.causal_mask_tensor
          /\ call.log[n].attended.causal_mask.kind = "tensor"
          /\ call.log[n].attended.padding_mask = call.mask
    /\ call.x = IF Len(call.log) = 0 THEN call.input
                ELSE call.log[Len(call.log)].x_out

\* C6: forward runs the blocks in construction order, each once, each on
\* the output of the one before, and returns the last output; every block
\* and its MultiHeadAttention get the causal buffer as causal mask and the
\* caller's padding mask as padding mask.
C6_BlocksRunInOrder == (ForwardEnded /\ WellShaped) => BlocksThreaded

\* In causal mode the blocks are threaded as C6 says.
BlocksRunInOrderWhenCausal ==
    (ForwardEnded /\ WellShaped /\ enc.args.causal_mask) => BlocksThreaded

\* ------------------------------------------------------------------ C9

\* forward returned the input's shape, as every block did.
ShapesKept ==
    /\ call.pc = "ret"
    /\ call.x.shape = call.input.shape
    /\ Len(call.log) = enc.args.num_layers
    /\ \A n \in 1..Len(call.log) :
          /\ call.log[n].x_out.shape = call.log[n].x_in.shape
          /\ call.log[n].attended.output = OkS(call.input.shape)
          /\ call.log[n].attended.weights.shape =
                <<call.input.shape[1], enc.args.num_heads,
                  call.input.shape[2], call.input.shape[2]>>
    /\ \A n \in 1..enc.args.num_layers :
          LET m == enc.self.encoders[n].multi_head_attention
          IN  m.num_heads * m.d_head = enc.args.d_model

\* C9: on an input [batch, seq_len, d_model], every block and the whole
\* Encoder return the input's shape; in every block
\* num_heads * d_head = d_model and the attention weights have shape
\* [batch, num_heads, seq_len, seq_len].
C9_ShapeInvariance == (ForwardEnded /\ WellShaped) => ShapesKept

\* In causal mode the shapes are kept as C9 says.
ShapeInvarianceWhenCausal ==
    (ForwardEnded /\ WellShaped /\ enc.args.causal_mask) => ShapesKept

\* ------------------------------------------------------------------ C7

\* A causal Encoder of at least one block raises on an input whose length
\* differs from seq_len.
EncoderLengthMismatchRaises ==
    (ForwardEnded /\ enc.args.causal_mask /\ enc.args.num_layers >= 1
        /\ ~WellShaped) => call.pc = "raised"

\* An Embedding raises on a batch longer than seq_length.
EmbeddingLongBatchRaises ==
    (embOut.pc \in {"ret", "raised"}
        /\ embOut.x.shape[2] > emb.args.seq_length) => embOut.pc = "raised"

\* C7: a forward call on an input whose length is inconsistent with the
\* configured length raises: a causal Encoder on an input whose length
\* differs from seq_len, an Embedding on a batch longer than seq_length.
C7_LengthMismatchRaises ==
    EncoderLengthMismatchRaises /\ EmbeddingLongBatchRaises

\* ------------------------------------------------------------------ C5
\* C5: with enable_padding, row 0 of the embedding table is zero after
\* construction and after every forward, backward and optimizer step, the
\* gradient of row 0 being zero whatever ids the batches hold.
C5_PaddingRowStaysZero ==
    (emb.state = "built" /\ emb.args.enable_padding) =>
        /\ emb.self.weight[0] = 0
        /\ emb.self.grad[0] = 0

\* Two optimizer steps have been taken on a padded table and another row
\* has moved from its initial value; a third batch, which holds token id 0,
\* has gone forward and backward.
C5_Witness ==
    /\ emb.state = "built" /\ emb.args.enable_padding
    /\ emb.steps = 2
    /\ embOut.pc = "backward"
    /\ \E idx \in DOMAIN embOut.x.data : embOut.x.data[idx] = 0
    /\ \E row \in DOMAIN emb.self.weight :
          row # 0 /\ emb.self.weight[row] # InitialWeight(row)

\* ------------------------------------------------------------------ C8
\* C8: no operation of a forward pass stores to a weight, a bias, the
\* positional table, the causal-mask buffer or a caller's input or mask,
\* the in-place ReLU included: they hold what they held before the passes;
\* and every pass that has ended, however the passes interleave, ended as
\* it would have alone, with the same result.
C8_ForwardKeepsSharedState ==
    model.state = "built" =>
        /\ stored.all \cap SharedLocs = {}
        /\ \A l \in SharedLocs : heap[l] = heap0[l]
        /\ \A p \in Passes :
              frames[p].pc \in {"ret", "raised"} =>
                 LET f0 == FirstFrame(p, frames[p].kind, frames[p].seed)
                     a == Alone(f0, heap0, model)
                 IN  /\ a.f = frames[p]
                     /\ heap[frames[p].x] = a.h[a.f.x]

\* Two Encoder passes in evaluation mode have both returned, each having
\* run its in-place ReLU once per block.
C8_Witness ==
    /\ model.state = "built" /\ ~model.training
    /\ \A p \in Passes : frames[p].kind = "Encoder" /\ frames[p].pc = "ret"
    /\ stored.inplace = {Temp("h", p, b) : p \in Passes, b \in 1..MaxLayers}

====
